---- MODULE Spec2Model ----
(***************************************************************************)
(* A model of python/sparkdl/graph/graph_builder.py: IsolatedSession (the  *)
(* execution context) and GraphFunction (dump, from_file, from_keras and   *)
(* from_list, the linear merge).                                           *)
(*                                                                         *)
(* Python strings are sequences of one-character strings, so that strip,   *)
(* endswith and concatenation are computed as the code computes them.      *)
(***************************************************************************)
EXTENDS Integers, Sequences, FiniteSets, TLC

VARIABLES
    \* ---- the engine's and the external framework's ambient state
    ambient,          \* TensorFlow's stack of default sessions, innermost last
    kerasSess,        \* the Keras backend's session, K.get_session()
    \* ---- GraphFunction.from_list
    functions,        \* the argument: a sequence of <<scope, gfn>>
    pc,               \* the position in from_list
    issn,             \* the IsolatedSession of the running with-block, or NoCtx
    graphs,           \* the graph of each context from_list creates
    first_input_info, \* the (dtype, shape, name) triples of phase 1
    first_inputs,     \* the placeholders recreated in phase 2
    prev_outputs,     \* the outputs of the stage imported last
    idx,              \* the loop index of phase 2 (zero-based, as enumerate)
    last_outputs,     \* the identity nodes of the last unit's outputs
    pending,          \* the exception propagating out of the with-block
    result,           \* what from_list returned or raised
    trace,            \* history: the engine calls from_list made, in order
    ambient0,         \* history: the ambient stack when from_list was called
    imports,          \* history: the import_graph_function calls of from_list
    \* ---- IsolatedSession objects driven by a caller
    ctxs,             \* each context's position and its keras_prev_sess
    atEnter,          \* history: the Keras session just before each __enter__
    lastOp,           \* history: the operation performed last, and on what
    imp_graph,        \* the graph of a context the caller imports units into
    imp,              \* the caller's last import_graph_function call
    \* ---- GraphFunction.from_keras
    fk_pc,            \* the position in from_keras
    fk_arg,           \* the argument: a KerasModel or a file path
    fk_calls,         \* the number of calls started
    tmpdirs,          \* the temporary directories that exist
    fk_dir,           \* the directory of model_path
    is_temp_model,    \* the local of that name
    fk_prev_sess,     \* the keras_prev_sess of the call's IsolatedSession
    fk_pending,       \* the exception propagating out of the with-block
    fk_result,        \* what from_keras returned or raised
    \* ---- GraphFunction.dump and GraphFunction.from_file
    files,            \* the file system: the content of each path, or Absent
    origin,           \* history: the unit dump wrote at each path
    io                \* the last dump or from_file call and what it ended with

ambientVars == <<ambient, kerasSess>>
mergeVars == <<functions, pc, issn, graphs, first_input_info, first_inputs,
               prev_outputs, idx, last_outputs, pending, result, trace, ambient0,
               imports>>
ctxVars == <<ctxs, atEnter, lastOp, imp_graph, imp>>
kerasVars == <<fk_pc, fk_arg, fk_calls, tmpdirs, fk_dir, is_temp_model,
               fk_prev_sess, fk_pending, fk_result>>
fileVars == <<files, origin, io>>
vars == <<ambientVars, mergeVars, ctxVars, kerasVars, fileVars>>

-----------------------------------------------------------------------------
(* Bounds of the model *)

MaxLen == 3

-----------------------------------------------------------------------------
(* Strings *)

SPACE == " "
SEP == <<"/">>

RECURSIVE lstrip(_)
lstrip(s) == IF s /= <<>> /\ Head(s) = SPACE THEN lstrip(Tail(s)) ELSE s

RECURSIVE rstrip(_)
rstrip(s) ==
    IF s /= <<>> /\ s[Len(s)] = SPACE THEN rstrip(SubSeq(s, 1, Len(s) - 1)) ELSE s

\* str.strip()
strip(s) == rstrip(lstrip(s))

\* str.endswith(suffix)
endswith(s, suffix) ==
    /\ Len(s) >= Len(suffix)
    /\ SubSeq(s, Len(s) - Len(suffix) + 1, Len(s)) = suffix

\* Python's None where a string is expected; no string equals it
None == <<"None">>

Range(s) == {s[i] : i \in 1..Len(s)}

-----------------------------------------------------------------------------
(* Graph functions *)

\* A node of a graph or of a GraphDef: an operation, the names of the
\* operations it consumes, and the type and shape of its output tensor
Node(name, op, inputs, dtype, shape) ==
    [name |-> name, op |-> op, inputs |-> inputs, dtype |-> dtype, shape |-> shape]

\* GraphFunction.__init__
GraphFunction(graph_def, input_names, output_names) ==
    [graph_def |-> graph_def, input_names |-> input_names,
     output_names |-> output_names]

InputPool == << <<"x">>, <<"w">> >>
OutputPool == << <<"y">>, <<"z">> >>

\* The unit with ni placeholders and no output operations
Unit(ni, no) ==
    GraphFunction(
        [i \in 1..ni |-> Node(InputPool[i], "Placeholder", <<>>, "float32", "s1")]
            \o [i \in 1..no |->
                    Node(OutputPool[i], "Op", SubSeq(InputPool, 1, ni), "float32", "s1")],
        SubSeq(InputPool, 1, ni),
        SubSeq(OutputPool, 1, no))

Units == {Unit(ni, no) : ni \in 0..Len(InputPool), no \in 1..Len(OutputPool)}

Scopes == {None, <<>>, <<"a">>, <<"b">>}

RECURSIVE SeqsUpTo(_, _)
SeqsUpTo(S, n) ==
    IF n = 0 THEN {<<>>}
    ELSE LET shorter == SeqsUpTo(S, n - 1)
         IN shorter \cup {Append(q, e) : q \in {r \in shorter : Len(r) = n - 1}, e \in S}

MergeSequences == SeqsUpTo(Scopes \X Units, MaxLen)

\* The unit with one placeholder and one output operation, of these names
NamedUnit(input, output) ==
    GraphFunction(<<Node(input, "Placeholder", <<>>, "float32", "s1"),
                    Node(output, "Op", <<input>>, "float32", "s1")>>,
                  <<input>>, <<output>>)

\* Units whose names meet each other's names and the scope labels, and
\* scope labels that are absent, empty, blank, or equal to a block label
ChainLen == 2
ChainUnits ==
    {NamedUnit(<<"x">>, <<"y">>), NamedUnit(<<"y">>, <<"x">>),
     NamedUnit(<<"y">>, <<"a">>), Unit(2, 1), Unit(1, 2)}
ChainScopes ==
    {None, <<>>, <<SPACE>>, <<"a">>, <<"G", "F", "N", "-", "B", "L", "K", "-", "1">>}
ChainSequences == SeqsUpTo(ChainScopes \X ChainUnits, ChainLen)

-----------------------------------------------------------------------------
(* The engine: TensorFlow's graph, name scopes and import_graph_def.  A    *)
(* graph is the sequence of its nodes in creation order.                   *)

NodeNames(graph) == {graph[i].name : i \in 1..Len(graph)}

Digits == <<"0", "1", "2", "3", "4", "5", "6", "7", "8", "9">>

\* str(k) for a one-digit k
Digit(k) == <<Digits[k + 1]>>

\* The names a graph holds in use: every node name and every name scope a
\* node lives under
NamesInUse(graph) ==
    UNION {{SubSeq(n, 1, k) : k \in {j \in 1..Len(n) :
                                        j = Len(n) \/ n[j + 1] = SEP[1]}}
           : n \in NodeNames(graph)}

RECURSIVE UniqueFrom(_, _, _)
UniqueFrom(graph, name, k) ==
    IF name \o <<"_">> \o Digit(k) \notin NamesInUse(graph) \/ k >= Len(Digits) - 1
    THEN name \o <<"_">> \o Digit(k)
    ELSE UniqueFrom(graph, name, k + 1)

\* Graph.unique_name: the name itself, or name_1, name_2, ...
UniqueName(graph, name) ==
    IF name \in NamesInUse(graph) THEN UniqueFrom(graph, name, 1) ELSE name

\* tfx.get_tensor / graph lookup: the node of that name, as a set of 0 or 1
Lookup(graph, name) == {graph[i] : i \in {j \in 1..Len(graph) : graph[j].name = name}}

\* The names of a GraphDef's nodes once imported under the effective scope
Prefixed(scope, name) == IF scope = <<>> THEN name ELSE scope \o SEP \o name

\* Python's dict(zip(keys, values)): zip stops at the shorter sequence and a
\* repeated key keeps its last value
MinLen(a, b) == IF Len(a) <= Len(b) THEN Len(a) ELSE Len(b)

DictZip(keys, values) ==
    [k \in {keys[i] : i \in 1..MinLen(keys, values)} |->
        values[CHOOSE i \in 1..MinLen(keys, values) :
                  /\ keys[i] = k
                  /\ \A j \in 1..MinLen(keys, values) : keys[j] = k => j <= i]]

\* An input_map argument: None, or a dict from input names to tensors
NoInputMap == [given |-> FALSE, dict |-> <<>>]
InputMap(d) == [given |-> TRUE, dict |-> d]

\* One node of a GraphDef as import_graph_def creates it under a scope:
\* renamed, its inputs renamed or, where input_map has them, rewired
Imported(node, scope, dict) ==
    Node(Prefixed(scope, node.name), node.op,
         [i \in 1..Len(node.inputs) |->
             IF node.inputs[i] \in DOMAIN dict
             THEN dict[node.inputs[i]].name
             ELSE Prefixed(scope, node.inputs[i])],
         node.dtype, node.shape)

\* The same node when the engine resolves a clash with a name in use by
\* renaming: each node takes a name the graph does not hold
ImportedUnique(node, graph, scope, dict) ==
    Node(UniqueName(graph, Prefixed(scope, node.name)), node.op,
         [i \in 1..Len(node.inputs) |->
             IF node.inputs[i] \in DOMAIN dict
             THEN dict[node.inputs[i]].name
             ELSE UniqueName(graph, Prefixed(scope, node.inputs[i]))],
         node.dtype, node.shape)

\* An exception
Exc(class, what, scope_in, scope_out) ==
    [class |-> class, what |-> what, scope_in |-> scope_in, scope_out |-> scope_out]

NoExc == Exc("", "", None, None)

\* The name scope under which tf.import_graph_def(..., name=name) creates
\* the nodes: none for the empty name, "import" for None, and a scope not
\* yet in use otherwise
EngineScope(graph, name) ==
    LET scope == IF name = None THEN <<"i", "m", "p", "o", "r", "t">> ELSE name
    IN  IF scope = <<>> THEN <<>> ELSE UniqueName(graph, scope)

\* tf.import_graph_def(graph_def, input_map, name): the outcomes the engine
\* can produce.  The engine may always refuse; under a scope already in use
\* it picks a fresh scope name; a verbatim import of a name the graph
\* already holds is, depending on the engine's version, refused or carried
\* out under names the graph does not hold.
ImportGraphDef(graph, graph_def, dict, name) ==
    LET eff == EngineScope(graph, name)
        new == [i \in 1..Len(graph_def) |-> Imported(graph_def[i], eff, dict)]
        renamed == [i \in 1..Len(graph_def) |->
                       ImportedUnique(graph_def[i], graph, eff, dict)]
        clash == \E i \in 1..Len(new) : new[i].name \in NamesInUse(graph)
    IN  {[exc |-> Exc("EngineError", "import_graph_def", None, None), graph |-> graph]}
        \cup (IF clash
              THEN {[exc |-> Exc("ValueError", "name collision", None, None),
                     graph |-> graph],
                    [exc |-> NoExc, graph |-> graph \o renamed]}
              ELSE {[exc |-> NoExc, graph |-> graph \o new]})

\* [tfx.get_tensor(graph, name) for name in names]: the tensors, or the
\* failure to resolve one of the names
AllFound(graph, names) == \A i \in 1..Len(names) : Lookup(graph, names[i]) /= {}

GetTensors(graph, names) ==
    [i \in 1..Len(names) |-> CHOOSE n \in Lookup(graph, names[i]) : TRUE]

\* The outcome of a call on a context: the exception raised (or NoExc), the
\* context's graph afterwards and the values returned
Outcome(exc, graph, feeds, fetches) ==
    [exc |-> exc, graph |-> graph, feeds |-> feeds, fetches |-> fetches]

\* IsolatedSession.import_graph_function(gfn, input_map, name)
import_graph_function(graph, gfn, input_map, name) ==
    IF input_map.given /\ ~(DOMAIN input_map.dict \subseteq Range(gfn.input_names))
    THEN {Outcome(Exc("AssertionError",
                      "cannot locate provided input elements in the graph",
                      None, None), graph, <<>>, <<>>)}
    ELSE
    LET stripped == IF name = None THEN None ELSE strip(name)
        prefix == IF stripped /= None /\ Len(stripped) > 0 THEN stripped ELSE <<>>
        input_names ==
            [i \in 1..Len(gfn.input_names) |-> Prefixed(prefix, gfn.input_names[i])]
        output_names ==
            [i \in 1..Len(gfn.output_names) |-> Prefixed(prefix, gfn.output_names[i])]
    IN  {IF r.exc /= NoExc THEN Outcome(r.exc, r.graph, <<>>, <<>>)
         ELSE IF ~AllFound(r.graph, input_names) \/ ~AllFound(r.graph, output_names)
         THEN Outcome(Exc("KeyError", "get_tensor", None, None), r.graph, <<>>, <<>>)
         ELSE Outcome(NoExc, r.graph, GetTensors(r.graph, input_names),
                      GetTensors(r.graph, output_names))
         : r \in ImportGraphDef(graph, gfn.graph_def, input_map.dict, stripped)}

\* The names an operation depends on, transitively, itself included
RECURSIVE Reach(_, _)
Reach(graph, names) ==
    LET more == names \cup
                UNION {Range(graph[i].inputs) :
                          i \in {j \in 1..Len(graph) : graph[j].name \in names}}
    IN  IF more = names THEN names ELSE Reach(graph, more)

\* tfx.strip_and_freeze_until(outputs, graph, sess): the GraphDef of the
\* nodes the outputs depend on
strip_and_freeze_until(outputs, graph) ==
    LET keep == Reach(graph, {outputs[i].name : i \in 1..Len(outputs)})
    IN  SelectSeq(graph, LAMBDA n : n.name \in keep)

\* IsolatedSession.asGraphFunction(inputs, outputs): the outcomes; the value
\* returned is the only element of fetches
asGraphFunction(graph, inputs, outputs) ==
    {Outcome(Exc("EngineError", "asGraphFunction", None, None), graph, <<>>, <<>>)}
    \cup
    (IF \E i \in 1..Len(inputs) : inputs[i].op /= "Placeholder"
     THEN {Outcome(Exc("AssertionError", "validated_input", None, None),
                   graph, <<>>, <<>>)}
     ELSE {Outcome(NoExc, graph, <<>>,
                   <<GraphFunction(strip_and_freeze_until(outputs, graph),
                                   [i \in 1..Len(inputs) |-> inputs[i].name],
                                   [i \in 1..Len(outputs) |-> outputs[i].name])>>)})

-----------------------------------------------------------------------------
(* IsolatedSession: the ambient state on __enter__ and __exit__ *)

\* sess.__enter__(): the session becomes the default session
SessEnter(stack, sess) == Append(stack, sess)

\* sess.__exit__(): the default session of before is the default again
SessExit(stack) == SubSeq(stack, 1, Len(stack) - 1)

\* K.set_session(self.sess), when keras_prev_sess is not None
KerasOnEnter(keras_prev_sess, sess, k) ==
    IF keras_prev_sess /= "None" THEN sess ELSE k

\* K.set_session(self.keras_prev_sess), when keras_prev_sess is not None
KerasOnExit(keras_prev_sess, k) ==
    IF keras_prev_sess /= "None" THEN keras_prev_sess ELSE k

-----------------------------------------------------------------------------
(* GraphFunction.from_list *)

NullGfn == GraphFunction(<<>>, <<>>, <<>>)

\* What a call ends with.  A value returned is a GraphFunction (shape
\* "GraphFunction") or a (scope, GraphFunction) tuple (shape "tuple").
NoResult == [tag |-> "none", exc |-> NoExc, shape |-> "", scope |-> None, gfn |-> NullGfn]
Raised(exc) == [tag |-> "raise", exc |-> exc, shape |-> "", scope |-> None, gfn |-> NullGfn]
ReturnedGfn(gfn) ==
    [tag |-> "return", exc |-> NoExc, shape |-> "GraphFunction", scope |-> None,
     gfn |-> gfn]
ReturnedTuple(pair) ==
    [tag |-> "return", exc |-> NoExc, shape |-> "tuple", scope |-> pair[1],
     gfn |-> pair[2]]

\* Mutants of CheckLinks: the single-input test applied to the left unit of
\* the pair; no single-input test; the single-input test before the arity test
RECURSIVE CheckLinksLeft(_, _)
CheckLinksLeft(fs, i) ==
    IF i >= Len(fs) THEN NoResult
    ELSE IF Len(fs[i][2].output_names) /= Len(fs[i + 1][2].input_names)
    THEN Raised(Exc("AssertionError",
                    "graph function link {} -> {} require compatible layers",
                    fs[i][1], fs[i + 1][1]))
    ELSE IF Len(fs[i][2].input_names) /= 1
    THEN Raised(Exc("NotImplementedError",
                    "Only support single input/output for intermediary layers",
                    None, None))
    ELSE CheckLinksLeft(fs, i + 1)

RECURSIVE CheckLinksArityOnly(_, _)
CheckLinksArityOnly(fs, i) ==
    IF i >= Len(fs) THEN NoResult
    ELSE IF Len(fs[i][2].output_names) /= Len(fs[i + 1][2].input_names)
    THEN Raised(Exc("AssertionError",
                    "graph function link {} -> {} require compatible layers",
                    fs[i][1], fs[i + 1][1]))
    ELSE CheckLinksArityOnly(fs, i + 1)

RECURSIVE CheckLinksTopologyFirst(_, _)
CheckLinksTopologyFirst(fs, i) ==
    IF i >= Len(fs) THEN NoResult
    ELSE IF Len(fs[i + 1][2].input_names) /= 1
    THEN Raised(Exc("NotImplementedError",
                    "Only support single input/output for intermediary layers",
                    None, None))
    ELSE IF Len(fs[i][2].output_names) /= Len(fs[i + 1][2].input_names)
    THEN Raised(Exc("AssertionError",
                    "graph function link {} -> {} require compatible layers",
                    fs[i][1], fs[i + 1][1]))
    ELSE CheckLinksTopologyFirst(fs, i + 1)

\* The loop over adjacent pairs, from the pair at (one-based) position i on
RECURSIVE CheckLinks(_, _)
CheckLinks(fs, i) ==
    IF i >= Len(fs) THEN NoResult
    ELSE LET scope_in == fs[i][1]
             gfn_in == fs[i][2]
             scope_out == fs[i + 1][1]
             gfn_out == fs[i + 1][2]
         IN  IF Len(gfn_in.output_names) /= Len(gfn_out.input_names)
             THEN Raised(Exc("AssertionError",
                             "graph function link {} -> {} require compatible layers",
                             scope_in, scope_out))
             ELSE IF Len(gfn_out.input_names) /= 1
             THEN Raised(Exc("NotImplementedError",
                             "Only support single input/output for intermediary layers",
                             None, None))
             ELSE CheckLinks(fs, i + 1)

\* from_list up to the first with-block: the exception raised, the value
\* returned, or NoResult when the merge goes on
FromListHead(fs) ==
    IF ~(Len(fs) >= 1)
    THEN Raised(Exc("AssertionError", "must provide at least one function", None, None))
    ELSE IF 1 = Len(fs) THEN ReturnedTuple(fs[1])
    ELSE CheckLinks(fs, 1)

NoCtx == "none"
Phase1Ctx == "p1"
Phase2Ctx == "p2"

\* 'GFN-BLK-{}'.format(idx)
BlockScope(i) == <<"G", "F", "N", "-", "B", "L", "K", "-">> \o Digit(i)

\* Mutant of StageScope: the label is tested for emptiness without strip
StageScopeUnstripped(scope, i) ==
    IF scope = None \/ Len(scope) = 0 THEN BlockScope(i) ELSE scope

\* The scope of the stage at zero-based position i
StageScope(scope, i) ==
    IF scope = None \/ Len(strip(scope)) = 0 THEN BlockScope(i) ELSE scope

\* Mutant of AddPlaceholders: the placeholders are created without their
\* recorded names
RECURSIVE AddPlaceholdersUnnamed(_, _)
AddPlaceholdersUnnamed(graph, infos) ==
    IF infos = <<>> THEN graph
    ELSE AddPlaceholdersUnnamed(
            Append(graph, Node(UniqueName(graph, <<"P", "l", "a", "c", "e", "h", "o",
                                                   "l", "d", "e", "r">>),
                               "Placeholder", <<>>, Head(infos)[1], Head(infos)[2])),
            Tail(infos))

\* tf.placeholder(dtype, shape, name) for each recorded triple, in order:
\* the graph afterwards
RECURSIVE AddPlaceholders(_, _)
AddPlaceholders(graph, infos) ==
    IF infos = <<>> THEN graph
    ELSE AddPlaceholders(
            Append(graph, Node(UniqueName(graph, Head(infos)[3]), "Placeholder",
                               <<>>, Head(infos)[1], Head(infos)[2])),
            Tail(infos))

\* tf.identity(tnsr, name=name) for each zipped pair, in order: the graph
\* afterwards
RECURSIVE AddIdentities(_, _, _)
AddIdentities(graph, tnsrs, names) ==
    IF tnsrs = <<>> \/ names = <<>> THEN graph
    ELSE AddIdentities(
            Append(graph, Node(UniqueName(graph, Head(names)), "Identity",
                               <<Head(tnsrs).name>>, Head(tnsrs).dtype,
                               Head(tnsrs).shape)),
            Tail(tnsrs), Tail(names))

\* Mutant of FromListCheck: the preconditions are tested inside the first
\* with-block
FromListCheckInside ==
    /\ UNCHANGED <<ctxVars, kerasVars, fileVars>>
    /\ pc = "call"
    /\ result' = FromListHead(functions)
    /\ pc' = CASE result'.tag = "raise" -> "raised"
              [] result'.tag = "return" -> "returned"
              [] OTHER -> "phase1"
    /\ trace' = IF result'.tag = "raise" THEN <<"create", "enter", "exit">> ELSE trace
    /\ UNCHANGED <<ambient, kerasSess, functions, issn, graphs, first_input_info,
                   first_inputs, prev_outputs, idx, last_outputs, pending, ambient0, imports>>

\* Lines 209-216: the preconditions and the one-element case
FromListCheck ==
    /\ UNCHANGED <<ctxVars, kerasVars, fileVars>>
    /\ pc = "call"
    /\ result' = FromListHead(functions)
    /\ pc' = CASE result'.tag = "raise" -> "raised"
              [] result'.tag = "return" -> "returned"
              [] OTHER -> "phase1"
    /\ UNCHANGED <<ambient, kerasSess, functions, issn, graphs, first_input_info,
                   first_inputs, prev_outputs, idx, last_outputs, pending, trace,
                   ambient0, imports>>

\* with IsolatedSession() as issn: a context on a fresh graph is created and
\* entered, unless the engine refuses to create it
OpenContext(at, ctx, next) ==
    /\ UNCHANGED <<ctxVars, kerasVars, fileVars>>
    /\ pc = at
    /\ \/ /\ issn' = ctx
          /\ graphs' = [graphs EXCEPT ![ctx] = <<>>]
          /\ ambient' = SessEnter(ambient, ctx)
          /\ kerasSess' = KerasOnEnter("None", ctx, kerasSess)
          /\ trace' = trace \o <<"create", "enter">>
          /\ pc' = next
          /\ UNCHANGED result
       \/ /\ result' = Raised(Exc("EngineError", "Session", None, None))
          /\ pc' = "raised"
          /\ UNCHANGED <<issn, graphs, ambient, kerasSess, trace>>
    /\ UNCHANGED <<functions, first_input_info, first_inputs, prev_outputs, idx,
                   last_outputs, pending, ambient0, imports>>

\* Mutant of CloseContext: __exit__ runs on the normal path only
CloseContextNoFinally(at, next) ==
    /\ UNCHANGED <<ctxVars, kerasVars, fileVars>>
    /\ pc = at
    /\ ambient' = IF pending /= NoExc THEN ambient ELSE SessExit(ambient)
    /\ kerasSess' = KerasOnExit("None", kerasSess)
    /\ issn' = NoCtx
    /\ trace' = IF pending /= NoExc THEN trace ELSE Append(trace, "exit")
    /\ IF pending /= NoExc
       THEN /\ result' = Raised(pending)
            /\ pc' = "raised"
       ELSE /\ pc' = next
            /\ UNCHANGED result
    /\ UNCHANGED <<functions, graphs, first_input_info, first_inputs, prev_outputs,
                   idx, last_outputs, pending, ambient0, imports>>

\* The with-block is left: __exit__ runs, and the pending exception, if
\* any, propagates to the caller
CloseContext(at, next) ==
    /\ UNCHANGED <<ctxVars, kerasVars, fileVars>>
    /\ pc = at
    /\ ambient' = SessExit(ambient)
    /\ kerasSess' = KerasOnExit("None", kerasSess)
    /\ issn' = NoCtx
    /\ trace' = Append(trace, "exit")
    /\ IF pending /= NoExc
       THEN /\ result' = Raised(pending)
            /\ pc' = "raised"
       ELSE /\ pc' = next
            /\ UNCHANGED result
    /\ UNCHANGED <<functions, graphs, first_input_info, first_inputs, prev_outputs,
                   idx, last_outputs, pending, ambient0, imports>>

\* Line 219
Phase1Open == OpenContext("phase1", Phase1Ctx, "phase1_import")

\* The record of one import_graph_function call: the context, its graph
\* before the call, the arguments, and the outcome
ImportCall(ctx, graph, gfn, input_map, name, o) ==
    [ctx |-> ctx, before |-> graph, gfn |-> gfn, input_map |-> input_map,
     name |-> name, exc |-> o.exc, after |-> o.graph, feeds |-> o.feeds,
     fetches |-> o.fetches]

\* Lines 220-225: the first unit is imported under the empty name and the
\* type, shape and name of each of its inputs recorded
Phase1Import ==
    /\ UNCHANGED <<ctxVars, kerasVars, fileVars>>
    /\ pc = "phase1_import"
    /\ \E o \in import_graph_function(graphs[issn], functions[1][2], NoInputMap, <<>>) :
          /\ graphs' = [graphs EXCEPT ![issn] = o.graph]
          /\ trace' = Append(trace, "import")
          /\ imports' = Append(imports,
                ImportCall(issn, graphs[issn], functions[1][2], NoInputMap, <<>>, o))
          /\ pending' = o.exc
          /\ first_input_info' =
                [i \in 1..Len(o.feeds) |->
                    <<o.feeds[i].dtype, o.feeds[i].shape, o.feeds[i].name>>]
    /\ pc' = "phase1_exit"
    /\ UNCHANGED <<ambient, kerasSess, functions, issn, first_inputs, prev_outputs,
                   idx, last_outputs, result, ambient0>>

\* The end of the first with-block
Phase1Exit == CloseContext("phase1_exit", "phase2")

\* Mutant of Phase2Open: the second with-block enters the context of the
\* first again
Phase2OpenReuse ==
    /\ UNCHANGED <<ctxVars, kerasVars, fileVars>>
    /\ pc = "phase2"
    /\ issn' = Phase1Ctx
    /\ ambient' = SessEnter(ambient, Phase1Ctx)
    /\ kerasSess' = KerasOnEnter("None", Phase1Ctx, kerasSess)
    /\ trace' = Append(trace, "enter")
    /\ pc' = "phase2_placeholders"
    /\ UNCHANGED <<functions, graphs, first_input_info, first_inputs, prev_outputs, idx,
                   last_outputs, pending, result, ambient0, imports>>

\* Line 228
Phase2Open == OpenContext("phase2", Phase2Ctx, "phase2_placeholders")

\* Lines 229-231: the placeholders of the merged unit
Phase2Placeholders ==
    /\ UNCHANGED <<ctxVars, kerasVars, fileVars>>
    /\ pc = "phase2_placeholders"
    /\ trace' = Append(trace, "placeholder")
    /\ \/ /\ graphs' = [graphs EXCEPT ![issn] = AddPlaceholders(@, first_input_info)]
          /\ first_inputs' = SubSeq(graphs'[issn], Len(graphs[issn]) + 1,
                                    Len(graphs'[issn]))
          /\ prev_outputs' = first_inputs'
          /\ idx' = 0
          /\ pc' = "phase2_stage"
          /\ UNCHANGED pending
       \/ /\ pending' = Exc("EngineError", "placeholder", None, None)
          /\ pc' = "phase2_exit"
          /\ UNCHANGED <<graphs, first_inputs, prev_outputs, idx>>
    /\ UNCHANGED <<ambient, kerasSess, functions, issn, first_input_info,
                   last_outputs, result, ambient0, imports>>

\* Mutant of Phase2Stage: every stage is rewired to the placeholders
Phase2StageToPlaceholders ==
    /\ UNCHANGED <<ctxVars, kerasVars, fileVars>>
    /\ pc = "phase2_stage"
    /\ idx < Len(functions)
    /\ LET scope == StageScope(functions[idx + 1][1], idx)
           gfn == functions[idx + 1][2]
           input_map == InputMap(DictZip(gfn.input_names, first_inputs))
       IN  \E o \in import_graph_function(graphs[issn], gfn, input_map, scope) :
              /\ graphs' = [graphs EXCEPT ![issn] = o.graph]
              /\ trace' = Append(trace, "import")
              /\ imports' = Append(imports,
                    ImportCall(issn, graphs[issn], gfn, input_map, scope, o))
              /\ IF o.exc /= NoExc
                 THEN /\ pending' = o.exc
                      /\ pc' = "phase2_exit"
                      /\ UNCHANGED <<prev_outputs, idx>>
                 ELSE /\ prev_outputs' = o.fetches
                      /\ idx' = idx + 1
                      /\ pc' = IF idx + 1 < Len(functions)
                               THEN "phase2_stage" ELSE "phase2_identity"
                      /\ UNCHANGED pending
    /\ UNCHANGED <<ambient, kerasSess, functions, issn, first_input_info,
                   first_inputs, last_outputs, result, ambient0>>

\* Lines 233-242, one turn of the loop: the stage at position idx is
\* imported under its scope, its inputs rewired to the previous outputs
Phase2Stage ==
    /\ UNCHANGED <<ctxVars, kerasVars, fileVars>>
    /\ pc = "phase2_stage"
    /\ idx < Len(functions)
    /\ LET scope == StageScope(functions[idx + 1][1], idx)
           gfn == functions[idx + 1][2]
           input_map == InputMap(DictZip(gfn.input_names, prev_outputs))
       IN  \E o \in import_graph_function(graphs[issn], gfn, input_map, scope) :
              /\ graphs' = [graphs EXCEPT ![issn] = o.graph]
              /\ trace' = Append(trace, "import")
              /\ imports' = Append(imports,
                    ImportCall(issn, graphs[issn], gfn, input_map, scope, o))
              /\ IF o.exc /= NoExc
                 THEN /\ pending' = o.exc
                      /\ pc' = "phase2_exit"
                      /\ UNCHANGED <<prev_outputs, idx>>
                 ELSE /\ prev_outputs' = o.fetches
                      /\ idx' = idx + 1
                      /\ pc' = IF idx + 1 < Len(functions)
                               THEN "phase2_stage" ELSE "phase2_identity"
                      /\ UNCHANGED pending
    /\ UNCHANGED <<ambient, kerasSess, functions, issn, first_input_info,
                   first_inputs, last_outputs, result, ambient0>>

\* Lines 244-248: the last outputs under their unscoped names
Phase2Identity ==
    /\ UNCHANGED <<ctxVars, kerasVars, fileVars>>
    /\ pc = "phase2_identity"
    /\ trace' = Append(trace, "identity")
    /\ \/ /\ graphs' = [graphs EXCEPT ![issn] =
                AddIdentities(@, prev_outputs,
                              functions[Len(functions)][2].output_names)]
          /\ last_outputs' = SubSeq(graphs'[issn], Len(graphs[issn]) + 1,
                                    Len(graphs'[issn]))
          /\ pc' = "phase2_export"
          /\ UNCHANGED pending
       \/ /\ pending' = Exc("EngineError", "identity", None, None)
          /\ pc' = "phase2_exit"
          /\ UNCHANGED <<graphs, last_outputs>>
    /\ UNCHANGED <<ambient, kerasSess, functions, issn, first_input_info,
                   first_inputs, prev_outputs, idx, result, ambient0, imports>>

\* Line 250: the merged unit is exported
Phase2Export ==
    /\ UNCHANGED <<ctxVars, kerasVars, fileVars>>
    /\ pc = "phase2_export"
    /\ trace' = Append(trace, "export")
    /\ \E o \in asGraphFunction(graphs[issn], first_inputs, last_outputs) :
          /\ pending' = o.exc
          /\ result' = IF o.exc = NoExc THEN ReturnedGfn(o.fetches[1]) ELSE result
    /\ pc' = "phase2_exit"
    /\ UNCHANGED <<ambient, kerasSess, functions, issn, graphs, first_input_info,
                   first_inputs, prev_outputs, idx, last_outputs, ambient0, imports>>

\* The end of the second with-block and line 252
Phase2Exit == CloseContext("phase2_exit", "returned")

-----------------------------------------------------------------------------
(* IsolatedSession objects that a caller creates, enters and exits, and    *)
(* the Keras backend's session, which the caller may change between them   *)

NumCtx == 2
CtxNames == <<"c1", "c2", "c3", "c4">>
CtxIds == {CtxNames[i] : i \in 1..NumCtx}
ExternalHandles == {"k0", "k1"}

\* K.get_session()
KGetSession(k) == k

\* IsolatedSession.__init__(graph=None, keras): the keras_prev_sess it keeps
InitKerasPrevSess(keras, k) == IF keras THEN KGetSession(k) ELSE "None"

\* Lines 47-53: the context's session is named as the context
Create(c, keras) ==
    /\ ctxs[c].at = "absent"
    /\ ctxs' = [ctxs EXCEPT ![c] =
                  [at |-> "created",
                   keras_prev_sess |-> InitKerasPrevSess(keras, kerasSess)]]
    /\ lastOp' = <<"create", c>>
    /\ UNCHANGED <<ambient, kerasSess, atEnter, imp_graph, imp, mergeVars, kerasVars,
                   fileVars>>

\* Lines 55-60
Enter(c) ==
    /\ ctxs[c].at = "created"
    /\ ambient' = SessEnter(ambient, c)
    /\ kerasSess' = KerasOnEnter(ctxs[c].keras_prev_sess, c, kerasSess)
    /\ ctxs' = [ctxs EXCEPT ![c].at = "entered"]
    /\ atEnter' = [atEnter EXCEPT ![c] = kerasSess]
    /\ lastOp' = <<"enter", c>>
    /\ UNCHANGED <<imp_graph, imp, mergeVars, kerasVars, fileVars>>

\* Lines 62-65: with-blocks nest, so the context exited is the innermost
Exit(c) ==
    /\ ctxs[c].at = "entered"
    /\ ambient /= <<>>
    /\ ambient[Len(ambient)] = c
    /\ kerasSess' = KerasOnExit(ctxs[c].keras_prev_sess, kerasSess)
    /\ ambient' = SessExit(ambient)
    /\ ctxs' = [ctxs EXCEPT ![c].at = "exited"]
    /\ lastOp' = <<"exit", c>>
    /\ UNCHANGED <<atEnter, imp_graph, imp, mergeVars, kerasVars, fileVars>>

\* The caller, outside every with-block, gives Keras another session
KSetSession(h) ==
    /\ \A c \in CtxIds : ctxs[c].at /= "entered"
    /\ h /= kerasSess
    /\ kerasSess' = h
    /\ lastOp' = <<"set_session", h>>
    /\ UNCHANGED <<ambient, ctxs, atEnter, imp_graph, imp, mergeVars, kerasVars,
                   fileVars>>

\* A caller's calls of import_graph_function on one entered context, whose
\* graph holds a tensor of the caller's that input_map may name
MaxImports == 2
ImportCtx == "c1"
CallerTensor == Node(<<"t">>, "Placeholder", <<>>, "float32", "s1")
ImportUnits == {Unit(2, 2)}
ImportNames == {None, <<>>, <<SPACE>>, <<"a">>, <<SPACE, "a", SPACE>>}
ImportKeys ==
    {{}, {<<"x">>}, {<<"x">>, <<"w">>}, {<<"q">>}, {<<"x">>, <<"q">>}}
ImportMaps ==
    {NoInputMap} \cup {InputMap([k \in keys |-> CallerTensor]) : keys \in ImportKeys}

\* Mutant of Import: the keys of input_map are tested after the engine's
\* import
ImportThenValidate(gfn, input_map, name) ==
    /\ imp.n < MaxImports
    /\ \E o \in import_graph_function(imp_graph, gfn, NoInputMap, name) :
          LET bad == input_map.given
                       /\ ~(DOMAIN input_map.dict \subseteq Range(gfn.input_names))
              r == IF bad /\ o.exc = NoExc
                   THEN Outcome(Exc("AssertionError",
                                    "cannot locate provided input elements in the graph",
                                    None, None), o.graph, <<>>, <<>>)
                   ELSE o
          IN  /\ imp_graph' = r.graph
              /\ imp' = [n |-> imp.n + 1,
                         call |-> ImportCall(ImportCtx, imp_graph, gfn, input_map, name, r)]
    /\ UNCHANGED <<ambient, kerasSess, ctxs, atEnter, lastOp, mergeVars, kerasVars,
                   fileVars>>

\* Lines 86-121: issn.import_graph_function(gfn, input_map, name)
Import(gfn, input_map, name) ==
    /\ imp.n < MaxImports
    /\ \E o \in import_graph_function(imp_graph, gfn, input_map, name) :
          /\ imp_graph' = o.graph
          /\ imp' = [n |-> imp.n + 1,
                     call |-> ImportCall(ImportCtx, imp_graph, gfn, input_map, name, o)]
    /\ UNCHANGED <<ambient, kerasSess, ctxs, atEnter, lastOp, mergeVars, kerasVars,
                   fileVars>>

-----------------------------------------------------------------------------
(* GraphFunction.from_keras *)

MaxCalls == 2
TempDirs == <<"kera-1", "kera-2", "kera-3", "kera-4">>
KerasCtx == "fk"

\* The graph Keras builds when it loads the model
KerasGraph == Unit(1, 1).graph_def

\* A call begins
FromKerasCall(arg) ==
    /\ fk_pc \in {"idle", "returned", "raised"}
    /\ fk_calls < MaxCalls
    /\ fk_calls' = fk_calls + 1
    /\ fk_arg' = arg
    /\ fk_pc' = "materialize"
    /\ fk_dir' = "None"
    /\ is_temp_model' = FALSE
    /\ fk_prev_sess' = "None"
    /\ fk_pending' = NoExc
    /\ fk_result' = NoResult
    /\ UNCHANGED <<ambient, kerasSess, tmpdirs, mergeVars, ctxVars, fileVars>>

\* Lines 177-189: an in-memory model is saved in a fresh temporary
\* directory; mkdtemp or model.save may fail
Materialize ==
    /\ fk_pc = "materialize"
    /\ IF fk_arg = "model"
       THEN \/ /\ fk_result' = Raised(Exc("OSError", "mkdtemp", None, None))
               /\ fk_pc' = "raised"
               /\ UNCHANGED <<tmpdirs, fk_dir, is_temp_model>>
            \/ /\ tmpdirs' = tmpdirs \cup {TempDirs[fk_calls]}
               /\ fk_dir' = TempDirs[fk_calls]
               /\ \/ /\ fk_result' = Raised(Exc("OSError", "model.save", None, None))
                     /\ fk_pc' = "raised"
                     /\ UNCHANGED is_temp_model
                  \/ /\ is_temp_model' = TRUE
                     /\ fk_pc' = "open"
                     /\ UNCHANGED fk_result
       ELSE /\ is_temp_model' = FALSE
            /\ fk_pc' = "open"
            /\ UNCHANGED <<tmpdirs, fk_dir, fk_result>>
    /\ UNCHANGED <<ambient, kerasSess, fk_arg, fk_calls, fk_prev_sess, fk_pending,
                   mergeVars, ctxVars, fileVars>>

\* Line 191: with IsolatedSession(keras=True) as issn
KerasOpen ==
    /\ fk_pc = "open"
    /\ \/ /\ fk_prev_sess' = InitKerasPrevSess(TRUE, kerasSess)
          /\ ambient' = SessEnter(ambient, KerasCtx)
          /\ kerasSess' = KerasOnEnter(fk_prev_sess', KerasCtx, kerasSess)
          /\ fk_pc' = "load"
          /\ UNCHANGED fk_result
       \/ /\ fk_result' = Raised(Exc("EngineError", "Session", None, None))
          /\ fk_pc' = "raised"
          /\ UNCHANGED <<fk_prev_sess, ambient, kerasSess>>
    /\ UNCHANGED <<fk_arg, fk_calls, tmpdirs, fk_dir, is_temp_model, fk_pending,
                   mergeVars, ctxVars, fileVars>>

\* Lines 192-194: the model is loaded and its graph captured; either may
\* fail
KerasLoad ==
    /\ fk_pc = "load"
    /\ \/ /\ fk_pending' = Exc("OSError", "load_model", None, None)
          /\ UNCHANGED fk_result
       \/ \E o \in asGraphFunction(
                    KerasGraph,
                    SelectSeq(KerasGraph, LAMBDA n : n.op = "Placeholder"),
                    SelectSeq(KerasGraph, LAMBDA n : n.op /= "Placeholder")) :
              /\ fk_pending' = o.exc
              /\ fk_result' = IF o.exc = NoExc THEN ReturnedGfn(o.fetches[1])
                                               ELSE fk_result
    /\ fk_pc' = "exit"
    /\ UNCHANGED <<ambient, kerasSess, fk_arg, fk_calls, tmpdirs, fk_dir,
                   is_temp_model, fk_prev_sess, mergeVars, ctxVars, fileVars>>

\* The end of the with-block: __exit__ runs, a pending exception propagates
KerasExit ==
    /\ fk_pc = "exit"
    /\ kerasSess' = KerasOnExit(fk_prev_sess, kerasSess)
    /\ ambient' = SessExit(ambient)
    /\ IF fk_pending /= NoExc
       THEN /\ fk_result' = Raised(fk_pending)
            /\ fk_pc' = "raised"
       ELSE /\ fk_pc' = "cleanup"
            /\ UNCHANGED fk_result
    /\ UNCHANGED <<fk_arg, fk_calls, tmpdirs, fk_dir, is_temp_model, fk_prev_sess,
                   fk_pending, mergeVars, ctxVars, fileVars>>

\* Lines 196-199: shutil.rmtree of the temporary directory, and the return
Cleanup ==
    /\ fk_pc = "cleanup"
    /\ tmpdirs' = IF is_temp_model THEN tmpdirs \ {fk_dir} ELSE tmpdirs
    /\ fk_pc' = "returned"
    /\ UNCHANGED <<ambient, kerasSess, fk_arg, fk_calls, fk_dir, is_temp_model,
                   fk_prev_sess, fk_pending, fk_result, mergeVars, ctxVars, fileVars>>

-----------------------------------------------------------------------------
(* GraphFunction.dump and GraphFunction.from_file.  Bytes are sequences of *)
(* symbols; the GraphDef's wire format ends every field with "|" and every *)
(* node with ";", and a pickled value begins with a symbol for its type.   *)

\* The chunks of s that end with the delimiter d, in order, and what is left
\* after the last delimiter
RECURSIVE SplitFrom(_, _, _, _)
SplitFrom(s, d, cur, acc) ==
    IF s = <<>> THEN [chunks |-> acc, rest |-> cur]
    ELSE IF Head(s) = d THEN SplitFrom(Tail(s), d, <<>>, Append(acc, cur))
    ELSE SplitFrom(Tail(s), d, Append(cur, Head(s)), acc)

Split(s, d) == SplitFrom(s, d, <<>>, <<>>)

\* Every element followed by the delimiter d
RECURSIVE Join(_, _)
Join(chunks, d) ==
    IF chunks = <<>> THEN <<>> ELSE Head(chunks) \o <<d>> \o Join(Tail(chunks), d)

\* graph_def.SerializeToString()
SerializeToString(graph_def) ==
    Join([i \in 1..Len(graph_def) |->
             Join(<<graph_def[i].name, <<graph_def[i].op>>,
                    Join(graph_def[i].inputs, ","), <<graph_def[i].dtype>>,
                    <<graph_def[i].shape>>>>, "|")],
         ";")

\* Whether tf.GraphDef.FromString can parse the bytes
WellFormed(bytes) ==
    LET nodes == Split(bytes, ";")
    IN  /\ nodes.rest = <<>>
        /\ \A i \in 1..Len(nodes.chunks) :
              LET f == Split(nodes.chunks[i], "|")
              IN  /\ f.rest = <<>>
                  /\ Len(f.chunks) = 5
                  /\ Len(f.chunks[2]) = 1
                  /\ Split(f.chunks[3], ",").rest = <<>>
                  /\ Len(f.chunks[4]) = 1
                  /\ Len(f.chunks[5]) = 1

\* tf.GraphDef.FromString(bytes), for bytes it can parse
FromString(bytes) ==
    LET nodes == Split(bytes, ";").chunks
    IN  [i \in 1..Len(nodes) |->
            LET f == Split(nodes[i], "|").chunks
            IN  Node(f[1], f[2][1], Split(f[3], ",").chunks, f[4][1], f[5][1])]

\* pickle of a list of strings, of a byte string and of None
PickleList(names) == <<"l">> \o Join(names, ",")
PickleBytes(bytes) == <<"b">> \o bytes
PickleNone == <<"N">>

\* The value a pickle holds: None, the bytes, or the list of strings
Unpickle(pickled) ==
    IF Head(pickled) = "N" THEN None
    ELSE IF Head(pickled) = "b" THEN Tail(pickled)
    ELSE Split(Tail(pickled), ",").chunks

\* A path without a file
Absent == [exists |-> FALSE, dict |-> <<>>]

\* The file joblib writes for a dict whose values are pickled
Stored(dict) == [exists |-> TRUE, dict |-> dict]

\* Lines 149-151: the dict dump stores
DumpDict(gfn) ==
    [graph_def_bytes |-> PickleBytes(SerializeToString(gfn.graph_def)),
     inputs |-> PickleList(gfn.input_names),
     outputs |-> PickleList(gfn.output_names)]

\* Lines 153-154: the path dump writes to
DumpPath(fpath) ==
    IF ~endswith(fpath, <<"j", "l">>) THEN fpath \o <<".", "j", "l">> ELSE fpath

\* Line 165: the path from_file reads
LoadPath(fpath) == fpath

\* Mutant of FromFileResult: the two name lists are read from each other's
\* field
FromFileResultSwapped(file) ==
    IF ~file.exists THEN Raised(Exc("IOError", "jl.load", None, None))
    ELSE IF ~({"inputs", "graph_def_bytes", "outputs"} \subseteq DOMAIN file.dict)
    THEN Raised(Exc("AssertionError", "from_file", None, None))
    ELSE IF ~WellFormed(Unpickle(file.dict["graph_def_bytes"]))
    THEN Raised(Exc("DecodeError", "FromString", None, None))
    ELSE ReturnedGfn(GraphFunction(FromString(Unpickle(file.dict["graph_def_bytes"])),
                                   Unpickle(file.dict["outputs"]),
                                   Unpickle(file.dict["inputs"])))

\* Mutant of FromFileResult: the fields are read without the test that they
\* are there
FromFileResultUnchecked(file) ==
    IF ~file.exists THEN Raised(Exc("IOError", "jl.load", None, None))
    ELSE IF ~({"inputs", "graph_def_bytes", "outputs"} \subseteq DOMAIN file.dict)
    THEN Raised(Exc("KeyError", "from_file", None, None))
    ELSE IF ~WellFormed(Unpickle(file.dict["graph_def_bytes"]))
    THEN Raised(Exc("DecodeError", "FromString", None, None))
    ELSE ReturnedGfn(GraphFunction(FromString(Unpickle(file.dict["graph_def_bytes"])),
                                   Unpickle(file.dict["inputs"]),
                                   Unpickle(file.dict["outputs"])))

\* Lines 165-170: what from_file ends with, given the file at the path
FromFileResult(file) ==
    IF ~file.exists THEN Raised(Exc("IOError", "jl.load", None, None))
    ELSE IF ~({"inputs", "graph_def_bytes", "outputs"} \subseteq DOMAIN file.dict)
    THEN Raised(Exc("AssertionError", "from_file", None, None))
    ELSE IF ~WellFormed(Unpickle(file.dict["graph_def_bytes"]))
    THEN Raised(Exc("DecodeError", "FromString", None, None))
    ELSE ReturnedGfn(GraphFunction(FromString(Unpickle(file.dict["graph_def_bytes"])),
                                   Unpickle(file.dict["inputs"]),
                                   Unpickle(file.dict["outputs"])))

CallerPaths == {<<"m">>, <<"m", ".", "j", "l">>, <<"m", "j", "l">>, <<"o", ".", "j", "l">>}
OldPath == <<"o", ".", "j", "l">>
AllPaths == CallerPaths \cup {DumpPath(f) : f \in CallerPaths}

FileUnits == {Unit(0, 1), Unit(2, 2)}

\* Files that something else than dump wrote
ForeignFiles ==
    {Absent,
     Stored([graph_def_bytes |-> PickleBytes(<<>>), inputs |-> PickleList(<<>>)]),
     Stored([graph_def_bytes |-> PickleBytes(<<>>), outputs |-> PickleList(<<>>)]),
     Stored([inputs |-> PickleList(<<>>), outputs |-> PickleList(<<>>)]),
     Stored([graph_def_bytes |-> PickleBytes(<<"x", "|">>), inputs |-> PickleList(<<>>),
             outputs |-> PickleList(<<>>)]),
     Stored([graph_def_bytes |-> PickleBytes(<<>>), inputs |-> PickleNone,
             outputs |-> PickleList(<<>>), version |-> PickleBytes(<<"1">>)])}

NoOrigin == [dumped |-> FALSE, gfn |-> NullGfn]

\* GraphFunction.dump(fpath) on the unit gfn; the write may fail
dump(gfn, fpath) ==
    /\ \/ /\ files' = [files EXCEPT ![DumpPath(fpath)] = Stored(DumpDict(gfn))]
          /\ origin' = [origin EXCEPT ![DumpPath(fpath)] = [dumped |-> TRUE, gfn |-> gfn]]
          /\ io' = [io EXCEPT !.op = "dump", !.prev = io.op, !.dump_arg = fpath,
                               !.wrote = DumpPath(fpath), !.result = ReturnedGfn(NullGfn)]
       \/ /\ io' = [io EXCEPT !.op = "dump_failed", !.prev = io.op,
                               !.result = Raised(Exc("IOError", "jl.dump", None, None))]
          /\ UNCHANGED <<files, origin>>
    /\ UNCHANGED <<ambientVars, mergeVars, ctxVars, kerasVars>>

\* GraphFunction.from_file(fpath)
from_file(fpath) ==
    /\ io' = [io EXCEPT !.op = "from_file", !.prev = io.op, !.load_arg = fpath,
                        !.read = LoadPath(fpath),
                        !.result = FromFileResult(files[LoadPath(fpath)])]
    /\ UNCHANGED <<files, origin>>
    /\ UNCHANGED <<ambientVars, mergeVars, ctxVars, kerasVars>>

-----------------------------------------------------------------------------
(* A caller that holds units and hands them, one call after another, to    *)
(* dump, to import_graph_function and to from_list                         *)

FrameSequences ==
    {<< <<<<"a">>, Unit(1, 1)>> >>,
     << <<None, Unit(2, 1)>>, <<<<"a">>, NamedUnit(<<"y">>, <<"x">>)>> >>,
     << <<<<"a">>, Unit(1, 1)>>, <<<<"a">>, Unit(1, 1)>>, <<None, Unit(1, 2)>> >>}
FramePaths == {<<"m">>}
FrameNames == {<<"a">>}

\* No call is under way
BetweenCalls == pc \in {"call", "raised", "returned"}

\* gfn.dump(fpath) on the held unit at position i
DumpHeld(i, fpath) ==
    /\ BetweenCalls
    /\ dump(functions[i][2], fpath)

\* Mutant of ImportHeld: lines 108-111 store the prefixed names in the unit
ImportHeldRenaming(i, name) ==
    /\ BetweenCalls
    /\ imp.n < MaxImports
    /\ LET gfn == functions[i][2]
       IN  /\ \E o \in import_graph_function(imp_graph, gfn, NoInputMap, name) :
                 /\ imp_graph' = o.graph
                 /\ imp' = [n |-> imp.n + 1,
                            call |-> ImportCall(ImportCtx, imp_graph, gfn, NoInputMap,
                                                name, o)]
           /\ functions' = [functions EXCEPT ![i][2].input_names =
                               [k \in 1..Len(gfn.input_names) |->
                                   Prefixed(strip(name), gfn.input_names[k])]]
    /\ UNCHANGED <<ambient, kerasSess, ctxs, atEnter, lastOp, kerasVars, fileVars>>
    /\ UNCHANGED <<pc, issn, graphs, first_input_info, first_inputs, prev_outputs, idx,
                   last_outputs, pending, result, trace, ambient0, imports>>

\* issn.import_graph_function(gfn, name=name) on the held unit at position i
ImportHeld(i, name) ==
    /\ BetweenCalls
    /\ Import(functions[i][2], NoInputMap, name)

-----------------------------------------------------------------------------
(* Specifications *)

RestMerge ==
    /\ functions = <<>>
    /\ pc = "idle"
    /\ issn = NoCtx
    /\ graphs = [c \in {Phase1Ctx, Phase2Ctx} |-> <<>>]
    /\ first_input_info = <<>>
    /\ first_inputs = <<>>
    /\ prev_outputs = <<>>
    /\ idx = 0
    /\ last_outputs = <<>>
    /\ pending = NoExc
    /\ result = NoResult
    /\ trace = <<>>
    /\ ambient0 = ambient
    /\ imports = <<>>

\* No import_graph_function call yet
NoImport ==
    [n |-> 0,
     call |-> ImportCall(NoCtx, <<>>, NullGfn, NoInputMap, <<>>,
                         Outcome(NoExc, <<>>, <<>>, <<>>))]

RestCtxObjects ==
    /\ ctxs = [c \in CtxIds |-> [at |-> "absent", keras_prev_sess |-> "None"]]
    /\ atEnter = [c \in CtxIds |-> "None"]
    /\ lastOp = <<"none", "none">>

RestCtx ==
    /\ RestCtxObjects
    /\ imp_graph = <<>>
    /\ imp = NoImport

RestKeras ==
    /\ fk_pc = "idle"
    /\ fk_arg = "path"
    /\ fk_calls = 0
    /\ tmpdirs = {}
    /\ fk_dir = "None"
    /\ is_temp_model = FALSE
    /\ fk_prev_sess = "None"
    /\ fk_pending = NoExc
    /\ fk_result = NoResult

NoIo == [op |-> "none", prev |-> "none", dump_arg |-> None, wrote |-> None,
         load_arg |-> None, read |-> None, result |-> NoResult]

RestFile ==
    /\ files = [f \in AllPaths |-> Absent]
    /\ origin = [f \in AllPaths |-> NoOrigin]
    /\ io = NoIo

InitMerge ==
    /\ ambient \in {<<>>, <<"s0">>}
    /\ kerasSess = "k0"
    /\ functions \in MergeSequences
    /\ pc = "call"
    /\ issn = NoCtx
    /\ graphs = [c \in {Phase1Ctx, Phase2Ctx} |-> <<>>]
    /\ first_input_info = <<>>
    /\ first_inputs = <<>>
    /\ prev_outputs = <<>>
    /\ idx = 0
    /\ last_outputs = <<>>
    /\ pending = NoExc
    /\ result = NoResult
    /\ trace = <<>>
    /\ ambient0 = ambient
    /\ imports = <<>>
    /\ RestCtx /\ RestKeras /\ RestFile

NextMerge ==
    \/ FromListCheck
    \/ Phase1Open
    \/ Phase1Import
    \/ Phase1Exit
    \/ Phase2Open
    \/ Phase2Placeholders
    \/ Phase2Stage
    \/ Phase2Identity
    \/ Phase2Export
    \/ Phase2Exit

SpecMerge == InitMerge /\ [][NextMerge]_vars

\* from_list on units and labels whose names collide
InitChain ==
    /\ ambient = <<>>
    /\ kerasSess = "k0"
    /\ functions \in ChainSequences
    /\ pc = "call"
    /\ issn = NoCtx
    /\ graphs = [c \in {Phase1Ctx, Phase2Ctx} |-> <<>>]
    /\ first_input_info = <<>>
    /\ first_inputs = <<>>
    /\ prev_outputs = <<>>
    /\ idx = 0
    /\ last_outputs = <<>>
    /\ pending = NoExc
    /\ result = NoResult
    /\ trace = <<>>
    /\ ambient0 = ambient
    /\ imports = <<>>
    /\ RestCtx /\ RestKeras /\ RestFile

SpecChain == InitChain /\ [][NextMerge]_vars


InitCtx ==
    /\ ambient \in {<<>>, <<"s0">>}
    /\ kerasSess = "k0"
    /\ RestMerge /\ RestCtx /\ RestKeras /\ RestFile

NextCtx ==
    \/ \E c \in CtxIds, keras \in BOOLEAN : Create(c, keras)
    \/ \E c \in CtxIds : Enter(c)
    \/ \E c \in CtxIds : Exit(c)
    \/ \E h \in ExternalHandles : KSetSession(h)

SpecCtx == InitCtx /\ [][NextCtx]_vars

\* import_graph_function, called on a context of the caller's
InitImport ==
    /\ ambient = <<ImportCtx>>
    /\ kerasSess = "k0"
    /\ imp_graph = <<CallerTensor>>
    /\ imp = NoImport
    /\ RestMerge /\ RestCtxObjects /\ RestKeras /\ RestFile

NextImport ==
    \E gfn \in ImportUnits, input_map \in ImportMaps, name \in ImportNames :
        Import(gfn, input_map, name)

SpecImport == InitImport /\ [][NextImport]_vars

\* dump, import_graph_function and from_list on the units a caller holds
InitFrame ==
    /\ ambient = <<ImportCtx>>
    /\ kerasSess = "k0"
    /\ functions \in FrameSequences
    /\ pc = "call"
    /\ issn = NoCtx
    /\ graphs = [c \in {Phase1Ctx, Phase2Ctx} |-> <<>>]
    /\ first_input_info = <<>>
    /\ first_inputs = <<>>
    /\ prev_outputs = <<>>
    /\ idx = 0
    /\ last_outputs = <<>>
    /\ pending = NoExc
    /\ result = NoResult
    /\ trace = <<>>
    /\ ambient0 = ambient
    /\ imports = <<>>
    /\ imp_graph = <<CallerTensor>>
    /\ imp = NoImport
    /\ RestCtxObjects /\ RestKeras /\ RestFile

NextFrame ==
    \/ NextMerge
    \/ \E i \in 1..Len(functions), fpath \in FramePaths : DumpHeld(i, fpath)
    \/ \E i \in 1..Len(functions), name \in FrameNames : ImportHeld(i, name)

SpecFrame == InitFrame /\ [][NextFrame]_vars

InitKeras ==
    /\ ambient \in {<<>>, <<"s0">>}
    /\ kerasSess \in ExternalHandles
    /\ RestMerge /\ RestCtx /\ RestKeras /\ RestFile

NextKeras ==
    \/ \E arg \in {"model", "path"} : FromKerasCall(arg)
    \/ Materialize
    \/ KerasOpen
    \/ KerasLoad
    \/ KerasExit
    \/ Cleanup

SpecKeras == InitKeras /\ [][NextKeras]_vars

InitFile ==
    /\ ambient = <<>>
    /\ kerasSess = "k0"
    /\ files \in {[[f \in AllPaths |-> Absent] EXCEPT ![OldPath] = old] :
                      old \in ForeignFiles}
    /\ origin = [f \in AllPaths |-> NoOrigin]
    /\ io = NoIo
    /\ RestMerge /\ RestCtx /\ RestKeras

NextFile ==
    \/ \E gfn \in FileUnits, fpath \in CallerPaths : dump(gfn, fpath)
    \/ \E fpath \in CallerPaths : from_file(fpath)

SpecFile == InitFile /\ [][NextFile]_vars

-----------------------------------------------------------------------------
(* Properties of from_list *)

Finished == pc \in {"raised", "returned"}

Count(seq, x) == Cardinality({i \in 1..Len(seq) : seq[i] = x})

ArityOk(fs) ==
    \A i \in 1..(Len(fs) - 1) :
        Len(fs[i][2].output_names) = Len(fs[i + 1][2].input_names)

UnsupportedTopology ==
    result.tag = "raise" /\ result.exc.class = "NotImplementedError"

ArityMismatch ==
    /\ result.tag = "raise"
    /\ result.exc.class = "AssertionError"
    /\ result.exc.what = "graph function link {} -> {} require compatible layers"

EmptySequence ==
    /\ result.tag = "raise"
    /\ result.exc.class = "AssertionError"
    /\ result.exc.what = "must provide at least one function"

\* C1 (as claimed): a merge of the single pair (label, g) returns the unit g
\* itself, a GraphFunction with g's three fields and not the pair, and makes
\* no engine call.
C1_IdentityMergeReturnsUnit ==
    (Len(functions) = 1 /\ pc /= "call")
        => /\ result = ReturnedGfn(functions[1][2])
           /\ trace = <<>>

\* C2 (as claimed): for a sequence of two or more units whose adjacent pairs
\* all pass the arity test, the merge raises the unsupported-topology error
\* exactly when some unit other than the last has a number of inputs other
\* than one.
C2_NonLastSingleInput ==
    (Len(functions) >= 2 /\ ArityOk(functions) /\ pc /= "call")
        => (UnsupportedTopology
              <=> \E i \in 1..(Len(functions) - 1) :
                      Len(functions[i][2].input_names) /= 1)

\* C2 (amended): for a sequence of two or more units whose adjacent pairs all
\* pass the arity test, the merge raises the unsupported-topology error
\* exactly when some unit other than the first has a number of inputs other
\* than one; whatever the first unit's number of inputs, it is not the reason
\* of a rejection.
C2_NonFirstSingleInput ==
    (Len(functions) >= 2 /\ ArityOk(functions) /\ pc /= "call")
        => (UnsupportedTopology
              <=> \E i \in 2..Len(functions) :
                      Len(functions[i][2].input_names) /= 1)

\* A last unit with two inputs, fed by a one-input unit with two outputs, is
\* rejected; the checks have run
C2_Witness ==
    /\ pc = "raised"
    /\ Len(functions) = 2
    /\ Len(functions[1][2].input_names) = 1
    /\ Len(functions[1][2].output_names) = 2
    /\ Len(functions[2][2].input_names) = 2
    /\ UnsupportedTopology

\* C3 (as claimed): a three-unit merge whose middle unit has two inputs raises
\* the unsupported-topology error, whatever the first unit's number of
\* outputs, and makes no engine call.
C3_MiddleTwoInputsTopologyError ==
    (Len(functions) = 3 /\ Len(functions[2][2].input_names) = 2 /\ pc /= "call")
        => /\ UnsupportedTopology
           /\ trace = <<>>

\* C3 (amended): a three-unit merge whose middle unit has two inputs fails in
\* the precondition checks and makes no engine call; the error is the
\* unsupported-topology error when the first unit has two outputs and the
\* arity-mismatch error of the first pair otherwise.
C3_MiddleTwoInputsRejected ==
    (Len(functions) = 3 /\ Len(functions[2][2].input_names) = 2 /\ pc /= "call")
        => /\ pc = "raised"
           /\ trace = <<>>
           /\ IF Len(functions[1][2].output_names) = 2
              THEN UnsupportedTopology
              ELSE /\ ArityMismatch
                   /\ result.exc.scope_in = functions[1][1]
                   /\ result.exc.scope_out = functions[2][1]

C3_Witness ==
    /\ pc = "raised"
    /\ Len(functions) = 3
    /\ Len(functions[2][2].input_names) = 2
    /\ Len(functions[1][2].output_names) = 2
    /\ UnsupportedTopology

\* The first pair that fails the arity test (one-based position of its left
\* unit)
FirstMismatch(fs) ==
    CHOOSE i \in 1..(Len(fs) - 1) :
        /\ Len(fs[i][2].output_names) /= Len(fs[i + 1][2].input_names)
        /\ \A j \in 1..(i - 1) :
              Len(fs[j][2].output_names) = Len(fs[j + 1][2].input_names)

\* C4 (as claimed): a sequence of two or more units with an adjacent pair
\* that fails the arity test raises the arity-mismatch error, which names
\* the scope labels of a failing pair, in the precondition checks: no engine
\* call is made.
C4_MismatchRaisesArityError ==
    (Len(functions) >= 2 /\ ~ArityOk(functions) /\ pc /= "call")
        => /\ pc = "raised"
           /\ ArityMismatch
           /\ \E i \in 1..(Len(functions) - 1) :
                 /\ Len(functions[i][2].output_names)
                        /= Len(functions[i + 1][2].input_names)
                 /\ result.exc.scope_in = functions[i][1]
                 /\ result.exc.scope_out = functions[i + 1][1]
           /\ trace = <<>>

\* C4 (amended): a sequence of two or more units with an adjacent pair that
\* fails the arity test fails in the precondition checks, with no engine
\* call; the error is the arity-mismatch error naming the scope labels of the
\* first failing pair, unless the right unit of an earlier pair has a number
\* of inputs other than one, and then it is the unsupported-topology error.
C4_MismatchRejectedInValidation ==
    (Len(functions) >= 2 /\ ~ArityOk(functions) /\ pc /= "call")
        => /\ pc = "raised"
           /\ trace = <<>>
           /\ LET k == FirstMismatch(functions)
              IN  IF \E j \in 1..(k - 1) : Len(functions[j + 1][2].input_names) /= 1
                  THEN UnsupportedTopology
                  ELSE /\ ArityMismatch
                       /\ result.exc.scope_in = functions[k][1]
                       /\ result.exc.scope_out = functions[k + 1][1]

\* The second pair of three units fails the arity test and is the one named
C4_Witness ==
    /\ pc = "raised"
    /\ Len(functions) = 3
    /\ Len(functions[1][2].output_names) = Len(functions[2][2].input_names)
    /\ Len(functions[2][2].output_names) /= Len(functions[3][2].input_names)
    /\ functions[1][1] /= functions[2][1]
    /\ functions[2][1] /= functions[3][1]
    /\ ArityMismatch
    /\ result.exc.scope_in = functions[2][1]
    /\ result.exc.scope_out = functions[3][1]

\* C5: a merge that ends in a precondition failure (empty sequence, arity
\* mismatch, unsupported topology) has created and entered no context and
\* made no import, placeholder, identity or export: its trace of engine
\* calls is empty and no graph holds a node.
C5_ValidationBeforeAnyContext ==
    (EmptySequence \/ ArityMismatch \/ UnsupportedTopology)
        => /\ trace = <<>>
           /\ \A c \in DOMAIN graphs : graphs[c] = <<>>
           /\ issn = NoCtx
           /\ ambient = ambient0

C5_Witness ==
    /\ pc = "raised"
    /\ Len(functions) = 3
    /\ UnsupportedTopology

\* C6: when a merge has returned or raised, at whatever step, the stack of
\* default sessions is the stack of before the call, the external
\* framework's session is untouched, and every context entered was exited.
C6_AmbientRestored ==
    Finished
        => /\ ambient = ambient0
           /\ kerasSess = "k0"
           /\ issn = NoCtx
           /\ Count(trace, "enter") = Count(trace, "exit")

\* A merge that failed in the second with-block, after the stages
C6_Witness ==
    /\ pc = "raised"
    /\ ambient0 /= <<>>
    /\ result.exc.what = "identity"
    /\ Count(trace, "enter") = 2

\* A merge that returned a merged unit
C6_WitnessReturned ==
    /\ pc = "returned"
    /\ Len(functions) = 3
    /\ result.shape = "GraphFunction"

-----------------------------------------------------------------------------
(* Properties of IsolatedSession *)

Linked(c) == ctxs[c].keras_prev_sess /= "None"

\* C7 (as claimed): for a context created with keras set, while it is the
\* innermost entered context the Keras session is the context's own session,
\* and right after its __exit__ the Keras session is the one Keras had just
\* before the matching __enter__.
C7_LinkedSessionScoped ==
    \A c \in CtxIds :
        Linked(c) =>
            /\ (ctxs[c].at = "entered" /\ ambient[Len(ambient)] = c)
                    => kerasSess = c
            /\ lastOp = <<"exit", c>> => kerasSess = atEnter[c]

-----------------------------------------------------------------------------
(* Properties of from_keras *)

\* C8 (as claimed): when from_keras on an in-memory model has returned or
\* raised, the temporary directory it made for the model does not exist.
C8_TempDirRemoved ==
    (fk_pc \in {"returned", "raised"} /\ fk_arg = "model")
        => TempDirs[fk_calls] \notin tmpdirs

-----------------------------------------------------------------------------
(* Properties of dump and from_file *)

\* C9: when from_file returns a unit read from a file that dump wrote for a
\* unit g, the unit has g's graph-definition bytes, input_names and
\* output_names, in g's order; an empty input_names comes back as the empty
\* sequence, not as None.
C9_RoundTrip ==
    (io.op = "from_file" /\ origin[io.read].dumped)
        => LET g == origin[io.read].gfn
           IN  /\ io.result.tag = "return"
               /\ SerializeToString(io.result.gfn.graph_def)
                      = SerializeToString(g.graph_def)
               /\ io.result.gfn.graph_def = g.graph_def
               /\ io.result.gfn.input_names = g.input_names
               /\ io.result.gfn.output_names = g.output_names
               /\ g.input_names = <<>> => io.result.gfn.input_names /= None

\* A unit with two inputs and two outputs has been written and read back
C9_Witness ==
    /\ io.op = "from_file"
    /\ origin[io.read].dumped
    /\ Len(origin[io.read].gfn.input_names) = 2
    /\ Len(origin[io.read].gfn.output_names) = 2
    /\ io.result.tag = "return"

\* A unit without inputs has been written and read back
C9_WitnessEmpty ==
    /\ io.op = "from_file"
    /\ origin[io.read].dumped
    /\ origin[io.read].gfn.input_names = <<>>
    /\ io.result.tag = "return"
    /\ io.result.gfn.input_names = <<>>

\* C10 (as claimed): from_file(p) right after a dump(p) that wrote reads the
\* path that dump wrote, for every path p, with or without the suffix; and
\* the path dump writes to, given again, is the path dump writes to.
C10_ReadWhatWasWritten ==
    /\ (io.op = "from_file" /\ io.prev = "dump" /\ io.load_arg = io.dump_arg)
            => io.read = io.wrote
    /\ \A f \in CallerPaths : DumpPath(DumpPath(f)) = DumpPath(f)

-----------------------------------------------------------------------------
(* Properties of the merged unit *)

Merged == pc = "returned" /\ Len(functions) >= 2

LastUnit == functions[Len(functions)][2]

\* C11 (as claimed): the output_names of a merged unit are the declared
\* output_names of the last unit of the sequence, in their order and
\* unrenamed, whatever the names and the scope labels.
C11_OutputNamesOfLastUnit ==
    Merged => result.gfn.output_names = LastUnit.output_names

\* C12: the input_names of a merged unit are the declared input_names of the
\* first unit of the sequence, in their order; they are the names recorded
\* in phase 1 and the names of the placeholders of phase 2.
C12_InputNamesOfFirstUnit ==
    Merged =>
        /\ result.gfn.input_names = functions[1][2].input_names
        /\ [i \in 1..Len(first_input_info) |-> first_input_info[i][3]]
              = functions[1][2].input_names
        /\ [i \in 1..Len(first_inputs) |-> first_inputs[i].name]
              = functions[1][2].input_names

\* A first unit with two inputs has been merged with another unit
C12_Witness ==
    /\ Merged
    /\ Len(functions[1][2].input_names) = 2
    /\ result.gfn.input_names = <<<<"x">>, <<"w">>>>

-----------------------------------------------------------------------------
(* Properties of import_graph_function *)

Called == imp.n > 0

KeysDeclared(call) ==
    call.input_map.given =>
        DOMAIN call.input_map.dict \subseteq Range(call.gfn.input_names)

\* C13: an import whose input_map has a key that is not a declared input
\* name fails with the validation error and leaves the context's graph as
\* it was, the engine's import not being called; an import whose keys are
\* all declared input names does not fail the validation.
C13_KeysValidatedBeforeImport ==
    Called =>
        /\ ~KeysDeclared(imp.call) =>
              /\ imp.call.exc.class = "AssertionError"
              /\ imp.call.after = imp.call.before
              /\ imp_graph = imp.call.before
        /\ KeysDeclared(imp.call) => imp.call.exc.class /= "AssertionError"

\* An import with an undeclared key has failed, after an import with
\* declared keys that the engine carried out
C13_Witness ==
    /\ imp.n = 2
    /\ ~KeysDeclared(imp.call)
    /\ imp.call.exc.class = "AssertionError"
    /\ Len(imp_graph) > 1

-----------------------------------------------------------------------------
(* Properties of from_file on containers that dump did not write *)

ArchiveFields == {"graph_def_bytes", "inputs", "outputs"}

FileRead == files[io.read]

\* C14: from_file on a container that lacks one of the fields
\* graph_def_bytes, inputs, outputs fails with the malformed-archive error
\* (the assertion of line 166) and returns no unit; on a container that
\* holds the three fields, with or without further fields, it does not fail
\* with that error.
C14_FieldsRequired ==
    (io.op = "from_file" /\ FileRead.exists) =>
        /\ ~(ArchiveFields \subseteq DOMAIN FileRead.dict) =>
              /\ io.result.tag = "raise"
              /\ io.result.exc.class = "AssertionError"
        /\ ArchiveFields \subseteq DOMAIN FileRead.dict =>
              io.result.exc.class /= "AssertionError"

\* A container without the inputs field has been read and refused
C14_Witness ==
    /\ io.op = "from_file"
    /\ FileRead.exists
    /\ DOMAIN FileRead.dict = {"graph_def_bytes", "outputs"}
    /\ io.result.tag = "raise"

\* The nodes the last call added to the context's graph
ImportedNodes(call) == Range(SubSeq(call.after, Len(call.before) + 1, Len(call.after)))

\* The prefix the code applies to the declared names
CodePrefix(name) == IF name = None THEN <<>> ELSE strip(name)

\* C15 (as claimed): a successful import under the prefix p returns as many
\* feeds as declared input names and as many fetches as declared output
\* names, in their order; the i-th handle is the node named trim(p)/name_i,
\* or name_i when p is empty or blank; and each handle is a node that this
\* import created.
C15_HandlesAreTheImportedNodes ==
    (Called /\ imp.call.exc = NoExc /\ imp.call.name /= None) =>
        LET call == imp.call
            p == CodePrefix(call.name)
        IN  /\ Len(call.feeds) = Len(call.gfn.input_names)
            /\ Len(call.fetches) = Len(call.gfn.output_names)
            /\ \A i \in 1..Len(call.feeds) :
                  /\ call.feeds[i].name = Prefixed(p, call.gfn.input_names[i])
                  /\ call.feeds[i] \in ImportedNodes(call)
            /\ \A i \in 1..Len(call.fetches) :
                  /\ call.fetches[i].name = Prefixed(p, call.gfn.output_names[i])
                  /\ call.fetches[i] \in ImportedNodes(call)

-----------------------------------------------------------------------------
(* Properties of the two phases of from_list *)

\* The import of the stage at zero-based position i of phase 2
StageImport(i) == imports[i + 2]

\* The handles the stage at position i is rewired to
StageFeeds(i) == IF i = 0 THEN first_inputs ELSE StageImport(i - 1).fetches

\* The stage's declared inputs are rewired, position by position, to feeds
Rewired(call, feeds) ==
    /\ Len(feeds) = Len(call.gfn.input_names)
    /\ call.input_map.given
    /\ DOMAIN call.input_map.dict = Range(call.gfn.input_names)
    /\ \A k \in 1..Len(feeds) : call.input_map.dict[call.gfn.input_names[k]] = feeds[k]
    /\ call.exc = NoExc =>
          \A n \in 1..Len(call.gfn.graph_def) :
             \A k \in 1..Len(call.gfn.graph_def[n].inputs) :
                \A j \in 1..Len(feeds) :
                   call.gfn.graph_def[n].inputs[k] = call.gfn.input_names[j] =>
                      call.after[Len(call.before) + n].inputs[k] = feeds[j].name

\* C16: phase 2 imports the units of the sequence once each and in their
\* order, the unit at position 0 rewired position by position to the
\* placeholders and the unit at each later position to the handles the
\* import before it returned, which are as many as the unit's declared
\* inputs; a merge that returns has imported every unit.
C16_ChainedInOrder ==
    /\ \A i \in 0..(Len(imports) - 2) :
          /\ StageImport(i).ctx = Phase2Ctx
          /\ StageImport(i).gfn = functions[i + 1][2]
          /\ Rewired(StageImport(i), StageFeeds(i))
          /\ i > 0 => StageImport(i - 1).exc = NoExc
    /\ Merged => Len(imports) = Len(functions) + 1

\* Three units have been merged, the first of them with two inputs
C16_Witness ==
    /\ Merged
    /\ Len(functions) = 3
    /\ Len(functions[1][2].input_names) = 2
    /\ Len(imports) = 4

\* The sequence has two or more units and passes lines 209-216
PassedValidation == Len(functions) >= 2 /\ FromListHead(functions) = NoResult

Opened == Count(trace, "create")

\* The placeholder tf.placeholder makes of a recorded triple
PlaceholderOf(info) == Node(info[3], "Placeholder", <<>>, info[1], info[2])

\* The contexts are entered as they are created and never two at a time; the
\* first receives the one import of the first unit under the empty name;
\* the second starts from the placeholders made of the recorded triples,
\* receives every other import and is the one the merged unit comes from
TwoPhaseProtocol ==
    /\ Count(trace, "enter") = Opened
    /\ Count(trace, "enter") - Count(trace, "exit") = (IF issn = NoCtx THEN 0 ELSE 1)
    /\ Opened = 2 => Count(trace, "exit") >= 1
    /\ Len(imports) >= 1 =>
          /\ imports[1].ctx = Phase1Ctx
          /\ imports[1].before = <<>>
          /\ imports[1].gfn = functions[1][2]
          /\ imports[1].name = <<>>
          /\ ~imports[1].input_map.given
    /\ \A j \in 2..Len(imports) : imports[j].ctx = Phase2Ctx
    /\ Len(imports) >= 2 =>
          /\ Opened = 2
          /\ imports[2].before = first_inputs
          /\ first_inputs = [i \in 1..Len(first_input_info) |->
                                PlaceholderOf(first_input_info[i])]
    /\ result.tag = "return" =>
          /\ Range(result.gfn.graph_def) \subseteq Range(graphs[Phase2Ctx])
          /\ Count(trace, "export") = 1
          /\ \A k \in 1..Len(trace) :
                trace[k] = "export" => Count(SubSeq(trace, 1, k), "create") = 2

\* C17 (as claimed): a merge of two or more units that passes validation has
\* opened exactly two contexts when it ends, one after the other, the first
\* for the one import of the first unit under the empty name, the second
\* for everything else.
C17_ExactlyTwoContexts ==
    (Finished /\ PassedValidation) => (Opened = 2 /\ TwoPhaseProtocol)

\* C17 (amended): a merge of two or more units that passes validation opens
\* at most two contexts, one after the other and never nested, and exactly
\* two when it returns; it ends with fewer only by raising, the first
\* context refused or the first phase failed or the second context
\* refused.  The first context receives the one import of the first unit
\* under the empty name; the second starts from the placeholders of the
\* recorded triples and is the one the merged unit is exported from.
C17_AtMostTwoContexts ==
    PassedValidation =>
        /\ Opened <= 2
        /\ TwoPhaseProtocol
        /\ pc = "returned" => Opened = 2
        /\ (Finished /\ Opened < 2) =>
              /\ result.tag = "raise"
              /\ Len(imports) <= 1

\* A merge of three units has returned, two contexts opened and closed
C17_Witness ==
    /\ Merged
    /\ Len(functions) = 3
    /\ Opened = 2
    /\ Count(trace, "exit") = 2
    /\ Len(imports) = 4

\* A label that is absent, empty or made of whitespace only
Blank(label) == label = None \/ \A k \in 1..Len(label) : label[k] = SPACE

\* C18: the unit at zero-based position i of the sequence is imported in
\* phase 2 under GFN-BLK-i when its label is absent, empty or whitespace
\* only, and under its label otherwise; the labels made for two different
\* positions differ.
C18_ScopeSynthesis ==
    /\ \A i \in 0..(Len(imports) - 2) :
          StageImport(i).name =
              (IF Blank(functions[i + 1][1])
               THEN <<"G", "F", "N", "-", "B", "L", "K", "-">> \o Digit(i)
               ELSE functions[i + 1][1])
    /\ \A i, j \in 0..(Len(imports) - 2) :
          (i /= j /\ Blank(functions[i + 1][1]) /\ Blank(functions[j + 1][1]))
              => StageImport(i).name /= StageImport(j).name

\* Two units have been merged, the first under a whitespace label and the
\* second without a label
C18_Witness ==
    /\ Merged
    /\ functions[1][1] = <<SPACE>>
    /\ functions[2][1] = None
    /\ StageImport(0).name = <<"G", "F", "N", "-", "B", "L", "K", "-", "0">>
    /\ StageImport(1).name = <<"G", "F", "N", "-", "B", "L", "K", "-", "1">>

\* The label the stage at position i is imported under, as the import
\* trims it
TrimmedScope(i) == strip(StageScope(functions[i + 1][1], i))

\* The stage at position j asks for the label of an earlier stage
Collides(j) == \E i \in 0..(j - 1) : TrimmedScope(i) = TrimmedScope(j)

LabelsCollide == \E j \in 1..(Len(functions) - 1) : Collides(j)

\* C19 (as claimed): a sequence in which a label, given or made, is the
\* label of another position passes validation, and its merge fails in the
\* import of phase 2 that asks for the label again: no such import succeeds
\* and no merged unit is returned.
C19_CollisionFailsInImport ==
    (Len(functions) >= 2 /\ LabelsCollide /\ ArityOk(functions)
        /\ \A i \in 2..Len(functions) : Len(functions[i][2].input_names) = 1) =>
        /\ PassedValidation
        /\ \A j \in 1..(Len(imports) - 2) :
              Collides(j) => StageImport(j).exc /= NoExc
        /\ pc /= "returned"

-----------------------------------------------------------------------------
(* Frame property of the operations that receive a unit *)

\* C20: no step of dump, of import_graph_function or of from_list changes
\* the graph_def, the input_names or the output_names of a unit the caller
\* holds, whether the operation succeeds or fails.
C20_UnitsNeverMutated == [][functions' = functions]_vars

\* The first held unit has been dumped and imported, and the merge of the
\* held units has returned
C20_Witness ==
    /\ pc = "returned"
    /\ Len(functions) = 3
    /\ io.op = "dump"
    /\ origin[io.wrote] = [dumped |-> TRUE, gfn |-> functions[1][2]]
    /\ imp.n = 2
    /\ imp.call.exc = NoExc
    /\ imp.call.gfn = functions[3][2]

====
